---------------------------- MODULE Spec2Model ----------------------------
(***************************************************************************)
(* Print job monitor (src/print_monitor.cpp).                              *)
(*                                                                         *)
(* Three threads share the globals monitoringActive, printJobs, jobsMutex  *)
(* and logMutex:                                                           *)
(*   "cmd"  main() and commandLoop(): start, stop, export/save, stats,     *)
(*          quit;                                                          *)
(*   "mon"  monitorPrintJobs(), the polling loop spawned by                *)
(*          startMonitoring();                                             *)
(*   "ps"   periodicSave(), spawned once by main().                        *)
(* Every read or write of a shared global is a step of its own.  The plain *)
(* bool monitoringActive is read as the value last written (the opaque OS  *)
(* and library calls between two reads keep the compiler from caching it). *)
(* Timestamps, page counts and user names do not take part in any decision *)
(* of the program and are left out of the records.                         *)
(***************************************************************************)
EXTENDS Integers, Sequences, FiniteSets, TLC

(* ------------------------------ bounds -------------------------------- *)

\* Printers the OS can report, named 1..NumPrinters.
NumPrinters == 2

\* Jobs the spooler of printer 1 accepts during a run (Init, InitLife).
MaxJobs == 2

\* Records in the store of the long-running scenarios (InitEvict).
PrefillLen == 998

\* 1 s increments of periodicSave's wait that are followed one by one at
\* its start and at its end.
MaxSaveTicks == 2

\* Jobs printer 1 accepts after the PrefillLen recorded ones (InitStore).
StoreFresh == 2

\* The 900-element store that receives 150 more distinct jobs (InitLong).
LongPrefill == 900
LongFresh == 150

\* JOB_INFO_2.Status takes every value below 2^StatusBits (InitJob).
StatusBits == 11

\* DEVMODE codes run from -1 to these (InitJob).
MaxColor == 3
MaxDuplex == 4
MaxPaper == 12

\* Longest printer and user names drawn (InitJob).
MaxStrLen == 2

(* ------------------------- program constants -------------------------- *)

\* printJobs.size() > 1000
HighWater == 1000

\* printJobs.erase(begin, begin + 100)
EvictCount == 100

\* sleep_for(seconds(5)) after a failed or empty EnumPrinters
RetrySecs == 5

\* for (i = 0; i < 10 && monitoringActive; ++i) sleep_for(seconds(1))
PollWaitSecs == 10

\* for (i = 0; i < 1800 && monitoringActive; ++i) sleep_for(seconds(1))
SaveSecs == 1800

JOB_STATUS_PAUSED == 1
JOB_STATUS_ERROR == 2
JOB_STATUS_DELETING == 4
JOB_STATUS_SPOOLING == 8
JOB_STATUS_PRINTING == 16
JOB_STATUS_OFFLINE == 32
JOB_STATUS_PAPEROUT == 64
JOB_STATUS_DELETED == 256
JOB_STATUS_BLOCKED_DEVQ == 512
JOB_STATUS_USER_INTERVENTION == 1024

\* DEVMODE flags and codes (wingdi.h) as the decoders use them
DM_PAPERSIZE == 2
DM_DUPLEX == 4096
DM_COLOR == 2048
DMCOLOR_COLOR == 2
DMDUP_SIMPLEX == 1
DMDUP_VERTICAL == 2
DMDUP_HORIZONTAL == 3
DMPAPER_LETTER == 1
DMPAPER_LEGAL == 5
DMPAPER_A4 == 9
DMPAPER_A3 == 8
DMPAPER_A5 == 11

(* ------------------------------- state -------------------------------- *)

VARIABLES
    monitoringActive,   \* bool monitoringActive
    printJobs,          \* std::vector<PrintJob> printJobs
    jobsMutex,          \* std::mutex jobsMutex: "free" or the owning thread
    logMutex,           \* std::mutex logMutex: "free" or the owning thread
    monitorThread,      \* std::thread monitorThread: "empty" or "joinable"
    periodicSaveThread, \* std::thread periodicSaveThread
    pc,                 \* position of each thread
    ret,                \* position a thread continues at after logMessage
    logMsg,             \* the message a thread is writing with logMessage
    afterStop,          \* where stopMonitoring() returns to
    numPrinters,        \* monitorPrintJobs: DWORD numPrinters
    i,                  \* monitorPrintJobs: device index
    hPrinter,           \* monitorPrintJobs: open handle (0 is NULL)
    pJobInfo,           \* monitorPrintJobs: the enumerated JOB_INFO_2 array
    j,                  \* monitorPrintJobs: job index
    job,                \* monitorPrintJobs: PrintJob job
    exists,             \* monitorPrintJobs: bool exists
    waitI,              \* monitorPrintJobs: counter of the 10 x 1 s wait
    sleepLeft,          \* seconds left of a sleep_for(seconds(5))
    psI,                \* periodicSave: counter of the 1800 x 1 s wait
    nextJobId,          \* spooler: the id the next job of a printer gets
    jobCap,             \* spooler: the last id a printer hands out
    stuckJob,           \* spooler: a job that stays pending (0: none)
    terminated,         \* std::terminate() was called
    aliveLoops,         \* history: polling loops spawned and not yet ended
    lateSleep,          \* history: 1 s increments a thread slept with the
                        \* flag clear since it last read the flag
    everInserted,       \* history: the (printer, job id) pairs pushed so far
    lateInsert,         \* history: a record was pushed with the flag clear
                        \* since the flag was last set
    cycle,              \* history: the devices OpenPrinterA was called on in
                        \* this pass of the device loop, and whether a call
                        \* on one of them failed
    enumInfo,           \* job loop in full: the JOB_INFO_2A element and the
                        \* printer name it is read with
    fullJob,            \* job loop in full: PrintJob job with all its fields
    csvRow              \* exportToCSV: the row written for fullJob

vars == <<monitoringActive, printJobs, jobsMutex, logMutex, monitorThread,
          periodicSaveThread, pc, ret, logMsg, afterStop, numPrinters, i,
          hPrinter, pJobInfo, j, job, exists, waitI, sleepLeft, psI,
          nextJobId, jobCap, stuckJob, terminated, aliveLoops,
          lateSleep, everInserted, lateInsert, cycle, enumInfo, fullJob,
          csvRow>>

monVars == <<numPrinters, i, hPrinter, pJobInfo, j, job, exists, waitI,
             sleepLeft, cycle>>

osVars == <<nextJobId, jobCap, stuckJob>>

normVars == <<enumInfo, fullJob, csvRow>>

Threads == {"cmd", "mon", "ps"}

Printers == 1 .. NumPrinters

\* no device was tried yet in this pass of the device loop
NoCycle == [attempted |-> {}, failed |-> FALSE]

NoJob == [printerName |-> 0, jobId |-> 0, status |-> ""]

\* A DWORD whose upper half matters is kept as its two 16-bit halves.
Dword(hi, lo) == [hi |-> hi, lo |-> lo]

\* A std::string is a sequence of tokens: the double quote Q, or a run of
\* other characters, which no decision of the program looks into.
Q == "\""

\* a char* that is NULL
NullStr == <<"NULL">>

\* a DEVMODE* that is NULL
NullDevMode ==
    [null |-> TRUE, dmFields |-> 0, dmColor |-> 0, dmDuplex |-> 0,
     dmPaperSize |-> 0]

\* no JOB_INFO_2A element is being read
NoInfo ==
    [pPrinterName |-> NullStr, Status |-> 0, TotalPages |-> Dword(0, 0),
     PagesPrinted |-> Dword(0, 0), Size |-> Dword(0, 0),
     pUserName |-> NullStr, JobId |-> 0,
     pDevMode |-> NullDevMode]

\* PrintJob job; as default-constructed
NoFullJob ==
    [printerName |-> <<>>, timestamp |-> <<>>, status |-> <<>>, pages |-> 0,
     documentSize |-> 0, colorMode |-> <<>>, duplexSetting |-> <<>>,
     paperSize |-> <<>>, userAccount |-> <<>>, jobId |-> <<>>]

(* ------------------------- pure functions ----------------------------- *)

\* x & bit, for bit a power of two
BitSet(x, bit) == (x \div bit) % 2 = 1

\* faulty variant: Printing is tested before Paused
JobStatusPrintingFirst(mask) ==
    IF BitSet(mask, JOB_STATUS_PRINTING) THEN "Printing"
    ELSE IF BitSet(mask, JOB_STATUS_PAUSED) THEN "Paused"
    ELSE IF BitSet(mask, JOB_STATUS_ERROR) THEN "Error"
    ELSE IF BitSet(mask, JOB_STATUS_DELETING) THEN "Deleting"
    ELSE IF BitSet(mask, JOB_STATUS_SPOOLING) THEN "Spooling"
    ELSE IF BitSet(mask, JOB_STATUS_OFFLINE) THEN "Offline"
    ELSE IF BitSet(mask, JOB_STATUS_PAPEROUT) THEN "Paper Out"
    ELSE IF BitSet(mask, JOB_STATUS_DELETED) THEN "Deleted"
    ELSE IF BitSet(mask, JOB_STATUS_BLOCKED_DEVQ) THEN "Blocked"
    ELSE IF BitSet(mask, JOB_STATUS_USER_INTERVENTION)
         THEN "User Intervention Required"
    ELSE "Queued"

\* the if / else-if chain that maps JOB_INFO_2.Status to PrintJob::status
JobStatus(mask) ==
    IF BitSet(mask, JOB_STATUS_PAUSED) THEN "Paused"
    ELSE IF BitSet(mask, JOB_STATUS_ERROR) THEN "Error"
    ELSE IF BitSet(mask, JOB_STATUS_DELETING) THEN "Deleting"
    ELSE IF BitSet(mask, JOB_STATUS_SPOOLING) THEN "Spooling"
    ELSE IF BitSet(mask, JOB_STATUS_PRINTING) THEN "Printing"
    ELSE IF BitSet(mask, JOB_STATUS_OFFLINE) THEN "Offline"
    ELSE IF BitSet(mask, JOB_STATUS_PAPEROUT) THEN "Paper Out"
    ELSE IF BitSet(mask, JOB_STATUS_DELETED) THEN "Deleted"
    ELSE IF BitSet(mask, JOB_STATUS_BLOCKED_DEVQ) THEN "Blocked"
    ELSE IF BitSet(mask, JOB_STATUS_USER_INTERVENTION)
         THEN "User Intervention Required"
    ELSE "Queued"

\* faulty variant: any flag of dmFields counts as the color flag
getColorModeAnyFlag(pDevMode) ==
    IF pDevMode.null THEN "Unknown"
    ELSE IF pDevMode.dmFields > 0
    THEN (IF pDevMode.dmColor = DMCOLOR_COLOR THEN "Color" ELSE "Monochrome")
    ELSE "Unknown"

\* getColorMode(DEVMODE*)
getColorMode(pDevMode) ==
    IF pDevMode.null THEN "Unknown"
    ELSE IF BitSet(pDevMode.dmFields, DM_COLOR)
    THEN (IF pDevMode.dmColor = DMCOLOR_COLOR THEN "Color" ELSE "Monochrome")
    ELSE "Unknown"

\* getDuplexSetting(DEVMODE*)
getDuplexSetting(pDevMode) ==
    IF pDevMode.null THEN "Unknown"
    ELSE IF BitSet(pDevMode.dmFields, DM_DUPLEX)
    THEN CASE pDevMode.dmDuplex = DMDUP_SIMPLEX -> "Simplex"
           [] pDevMode.dmDuplex = DMDUP_VERTICAL -> "Duplex Vertical"
           [] pDevMode.dmDuplex = DMDUP_HORIZONTAL -> "Duplex Horizontal"
           [] OTHER -> "Unknown"
    ELSE "Unknown"

\* getPaperSize(DEVMODE*)
getPaperSize(pDevMode) ==
    IF pDevMode.null THEN "Unknown"
    ELSE IF BitSet(pDevMode.dmFields, DM_PAPERSIZE)
    THEN CASE pDevMode.dmPaperSize = DMPAPER_LETTER -> "Letter"
           [] pDevMode.dmPaperSize = DMPAPER_LEGAL -> "Legal"
           [] pDevMode.dmPaperSize = DMPAPER_A4 -> "A4"
           [] pDevMode.dmPaperSize = DMPAPER_A3 -> "A3"
           [] pDevMode.dmPaperSize = DMPAPER_A5 -> "A5"
           [] OTHER -> "Custom"
    ELSE "Unknown"

\* std::string(literal), for a literal without a double quote
Str(lit) == <<lit>>

\* ansiStringToUtf8(const char*)
ansiStringToUtf8(ansiStr) == IF ansiStr = NullStr THEN <<>> ELSE ansiStr

\* getCurrentTimestamp(): digits, '-', 'T', ':', '.', '+'
getCurrentTimestamp == <<"2000-01-01T00:00:00.000+00:00">>

\* dword > 0
Positive(dword) == dword.hi > 0 \/ dword.lo > 0

\* the conversion of a 32-bit unsigned value to a 32-bit int: values of
\* 2^31 and above wrap to dword - 2^32
ToInt(dword) ==
    (IF dword.hi >= 2 ^ 15 THEN dword.hi - 2 ^ 16 ELSE dword.hi) * 2 ^ 16
    + dword.lo

DigitChar == <<"0", "1", "2", "3", "4", "5", "6", "7", "8", "9">>

RECURSIVE Digits(_)
\* the decimal digits of n >= 0
Digits(n) ==
    IF n < 10 THEN <<DigitChar[n + 1]>>
    ELSE Append(Digits(n \div 10), DigitChar[(n % 10) + 1])

\* the decimal digits of m + 1 for m >= 0, also where m + 1 is 2^31
DigitsSucc(m) ==
    LET low == m % 10
        rest == (m \div 10) + (IF low = 9 THEN 1 ELSE 0)
    IN  (IF rest = 0 THEN <<>> ELSE Digits(rest))
        \o <<DigitChar[((low + 1) % 10) + 1]>>

\* std::to_string and operator<< of an integer
ToDecimal(n) ==
    IF n < 0 THEN <<"-">> \o DigitsSucc(-(n + 1)) ELSE Digits(n)

\* PrintJob job with all its fields, built from one JOB_INFO_2A element
FullJob(info) ==
    LET dm == info.pDevMode IN
    [printerName |-> ansiStringToUtf8(info.pPrinterName),
     timestamp |-> getCurrentTimestamp,
     status |-> Str(JobStatus(info.Status)),
     pages |-> ToInt(IF Positive(info.TotalPages) THEN info.TotalPages
                     ELSE info.PagesPrinted),
     documentSize |-> ToInt(info.Size),
     colorMode |-> IF dm.null THEN <<>> ELSE Str(getColorMode(dm)),
     duplexSetting |-> IF dm.null THEN <<>> ELSE Str(getDuplexSetting(dm)),
     paperSize |-> IF dm.null THEN <<>> ELSE Str(getPaperSize(dm)),
     userAccount |-> ansiStringToUtf8(info.pUserName),
     jobId |-> ToDecimal(info.JobId)]

\* PrintJob job built from printer index dev and one JOB_INFO_2 entry
MakeJob(dev, info) ==
    [printerName |-> dev + 1, jobId |-> info.JobId,
     status |-> JobStatus(info.Status)]

\* the (printerName, jobId) pairs of a store, the key the scan compares
Pairs(store) ==
    {<<store[k].printerName, store[k].jobId>> : k \in 1 .. Len(store)}

\* faulty variant: the scan also compares the status
JobExistsSameStatus(store, jb) ==
    \E k \in 1 .. Len(store) :
        /\ store[k].jobId = jb.jobId
        /\ store[k].printerName = jb.printerName
        /\ store[k].status = jb.status

\* the scan for a record with the same jobId and printerName
JobExists(store, jb) ==
    \E k \in 1 .. Len(store) :
        store[k].jobId = jb.jobId /\ store[k].printerName = jb.printerName

\* faulty variant: the threshold is off by one
OverHighWaterLate(store) == Len(store) > HighWater + 1

\* printJobs.size() > 1000
OverHighWater(store) == Len(store) > HighWater

\* faulty variant: one element too few is erased
EraseOldestShort(store) == SubSeq(store, EvictCount, Len(store))

\* printJobs.erase(printJobs.begin(), printJobs.begin() + 100)
EraseOldest(store) == SubSeq(store, EvictCount + 1, Len(store))

\* the critical section of the job loop: scan, push_back unless found,
\* erase when over the high-water mark
InsertIfNovel(store, jb) ==
    IF JobExists(store, jb)
    THEN store
    ELSE LET pushed == Append(store, jb) IN
         IF OverHighWater(pushed) THEN EraseOldest(pushed) ELSE pushed

RECURSIVE InsertAll(_, _, _)
\* the job loop over the jobs EnumJobs returned for device index dev
InsertAll(store, dev, infos) ==
    IF infos = <<>>
    THEN store
    ELSE InsertAll(InsertIfNovel(store, MakeJob(dev, Head(infos))), dev,
                   Tail(infos))

(* ------------------------- the OS spooler ----------------------------- *)

\* A job as EnumJobs reports it the first time, and while it stays pending.
FreshInfo(id) == [JobId |-> id, Status |-> JOB_STATUS_SPOOLING]
PendingInfo(id) == [JobId |-> id, Status |-> JOB_STATUS_PRINTING]

\* What the two EnumJobs calls on printer p can give: the second call
\* failing, no job (jobBytesNeeded = 0), or the job list; "fresh" counts the
\* jobs in it that the spooler accepted since the last enumeration.
EnumJobsResults(p) ==
    LET n == nextJobId[p] IN
    {[ok |-> FALSE, jobs |-> <<>>, fresh |-> 0],
     [ok |-> TRUE, jobs |-> <<>>, fresh |-> 0]}
    \cup (IF n > 1
          THEN {[ok |-> TRUE, jobs |-> <<PendingInfo(n - 1)>>, fresh |-> 0]}
          ELSE {})
    \cup (IF n <= jobCap[p]
          THEN {[ok |-> TRUE, jobs |-> <<FreshInfo(n)>>, fresh |-> 1]}
          ELSE {})
    \cup (IF n > 1 /\ n <= jobCap[p]
          THEN {[ok |-> TRUE, jobs |-> <<PendingInfo(n - 1), FreshInfo(n)>>,
                 fresh |-> 1]}
          ELSE {})
    \cup (IF stuckJob[p] > 0 /\ stuckJob[p] < n - 1
          THEN {[ok |-> TRUE, jobs |-> <<PendingInfo(stuckJob[p])>>,
                 fresh |-> 0]}
          ELSE {})

\* What the two EnumPrinters calls can give: 0 for bytesNeeded = 0, -1 for
\* the second call failing, or the number of printers.
EnumPrintersResults == {-1, 0} \cup Printers

(* --------------------------- initial states --------------------------- *)

InitCommon ==
    /\ jobsMutex = "free"
    /\ logMutex = "free"
    /\ ret = [t \in Threads |-> ""]
    /\ logMsg = [t \in Threads |-> ""]
    /\ afterStop = ""
    /\ numPrinters = 0
    /\ i = 0
    /\ hPrinter = 0
    /\ cycle = NoCycle
    /\ lateInsert = FALSE
    /\ pJobInfo = <<>>
    /\ j = 0
    /\ job = NoJob
    /\ exists = FALSE
    /\ waitI = 0
    /\ sleepLeft = 0
    /\ psI = 0
    /\ terminated = FALSE
    /\ lateSleep = [t \in Threads |-> 0]

\* no job is followed through the job loop in full
InitNorm ==
    /\ enumInfo = NoInfo
    /\ fullJob = NoFullJob
    /\ csvRow = <<>>

\* The process as main() finds it: the globals as constructed.  The
\* spooler of printer 1 accepts MaxJobs jobs, the other printers stay idle.
Init ==
    /\ InitCommon
    /\ InitNorm
    /\ everInserted = {}
    /\ monitoringActive = FALSE
    /\ monitorThread = "empty"
    /\ periodicSaveThread = "empty"
    /\ aliveLoops = 0
    /\ printJobs = <<>>
    /\ pc = [cmd |-> "main", mon |-> "none", ps |-> "none"]
    /\ nextJobId = [p \in Printers |-> 1]
    /\ jobCap = [p \in Printers |-> IF p = 1 THEN MaxJobs ELSE 0]
    /\ stuckJob = [p \in Printers |-> 0]

\* The process once periodicSave(), started by main(), has read
\* monitoringActive = false and returned, and commandLoop() waits for the
\* first command.
InitLife ==
    /\ InitCommon
    /\ InitNorm
    /\ everInserted = {}
    /\ monitoringActive = FALSE
    /\ monitorThread = "empty"
    /\ periodicSaveThread = "joinable"
    /\ aliveLoops = 0
    /\ printJobs = <<>>
    /\ pc = [cmd |-> "idle", mon |-> "none", ps |-> "done"]
    /\ nextJobId = [p \in Printers |-> 1]
    /\ jobCap = [p \in Printers |-> IF p = 1 THEN MaxJobs ELSE 0]
    /\ stuckJob = [p \in Printers |-> 0]

\* The records of jobs 1 .. n of printer 1, in the order of their ids.
Prefill(n) ==
    [k \in 1 .. n |-> [printerName |-> 1, jobId |-> k, status |-> "Spooling"]]

\* The process after "start" and PrefillLen polled jobs of printer 1, the
\* polling loop at the top of a cycle; periodicSave() has returned.  Job 1
\* of printer 1 stays pending, printer 1 accepts StoreFresh more jobs and
\* printer 2 its first job.
InitStore ==
    /\ InitCommon
    /\ InitNorm
    /\ everInserted = Pairs(Prefill(PrefillLen))
    /\ monitoringActive = TRUE
    /\ monitorThread = "joinable"
    /\ periodicSaveThread = "joinable"
    /\ aliveLoops = 1
    /\ printJobs = Prefill(PrefillLen)
    /\ pc = [cmd |-> "idle", mon |-> "while", ps |-> "done"]
    /\ nextJobId = [p \in Printers |-> IF p = 1 THEN PrefillLen + 1 ELSE 1]
    /\ jobCap = [p \in Printers |->
                    IF p = 1 THEN PrefillLen + StoreFresh
                    ELSE IF p = 2 THEN 1 ELSE 0]
    /\ stuckJob = [p \in Printers |-> IF p = 1 THEN 1 ELSE 0]

\* The process after "start" and LongPrefill polled jobs of printer 1;
\* printer 1 accepts LongFresh more jobs and no job stays pending for long.
InitLong ==
    /\ InitCommon
    /\ InitNorm
    /\ everInserted = Pairs(Prefill(LongPrefill))
    /\ monitoringActive = TRUE
    /\ monitorThread = "joinable"
    /\ periodicSaveThread = "joinable"
    /\ aliveLoops = 1
    /\ printJobs = Prefill(LongPrefill)
    /\ pc = [cmd |-> "idle", mon |-> "while", ps |-> "done"]
    /\ nextJobId = [p \in Printers |-> IF p = 1 THEN LongPrefill + 1 ELSE 1]
    /\ jobCap = [p \in Printers |->
                    IF p = 1 THEN LongPrefill + LongFresh ELSE 0]
    /\ stuckJob = [p \in Printers |-> 0]

(* ----------------------------- logMessage ----------------------------- *)

\* A call of logMessage(msg) by thread t, which continues at next; p is pc
\* with the caller's other updates.
CallLog(p, t, msg, next) ==
    /\ pc' = [p EXCEPT ![t] = "log"]
    /\ logMsg' = [logMsg EXCEPT ![t] = msg]
    /\ ret' = [ret EXCEPT ![t] = next]

\* std::lock_guard<std::mutex> lock(logMutex)
LogAcquire(t) ==
    /\ pc[t] = "log"
    /\ logMutex = "free"
    /\ logMutex' = t
    /\ pc' = [pc EXCEPT ![t] = "logging"]
    /\ UNCHANGED <<monitoringActive, printJobs, jobsMutex, monitorThread,
                   periodicSaveThread, ret, logMsg, afterStop, monVars, psI,
                   osVars, normVars, everInserted, lateInsert, terminated,
                   aliveLoops, lateSleep>>

\* faulty variant: logMessage() reads the store under jobsMutex while it
\* holds logMutex
LogWriteLocking(t) ==
    /\ pc[t] = "logging"
    /\ logMutex = t
    /\ jobsMutex = "free"
    /\ logMutex' = "free"
    /\ pc' = [pc EXCEPT ![t] = ret[t]]
    /\ ret' = [ret EXCEPT ![t] = ""]
    /\ logMsg' = [logMsg EXCEPT ![t] = ""]
    /\ UNCHANGED <<monitoringActive, printJobs, jobsMutex, monitorThread,
                   periodicSaveThread, afterStop, monVars, psI, osVars,
                   normVars, everInserted, lateInsert, terminated, aliveLoops,
                   lateSleep>>

\* the entry is written to the file and the console; the guard is released
LogWrite(t) ==
    /\ pc[t] = "logging"
    /\ logMutex = t
    /\ logMutex' = "free"
    /\ pc' = [pc EXCEPT ![t] = ret[t]]
    /\ ret' = [ret EXCEPT ![t] = ""]
    /\ logMsg' = [logMsg EXCEPT ![t] = ""]
    /\ UNCHANGED <<monitoringActive, printJobs, jobsMutex, monitorThread,
                   periodicSaveThread, afterStop, monVars, psI, osVars,
                   normVars, everInserted, lateInsert, terminated, aliveLoops,
                   lateSleep>>

(* ------------------------ locks and thread joins ---------------------- *)

\* faulty variant: the mutex does not exclude
CanLockAlways(m) == TRUE

\* std::lock_guard<std::mutex> blocks until the mutex is free
CanLock(m) == m = "free"

\* faulty variant: the thread is not waited for
JoinReturnsAtOnce == TRUE

\* monitorThread.join() returns once the polling loop has ended
JoinReturns == monitorThread = "joinable" => pc["mon"] = "done"

\* faulty variant: startMonitoring() without its check
AlreadyActiveIgnored == FALSE

\* if (monitoringActive) at the top of startMonitoring()
AlreadyActive == monitoringActive

\* faulty variant: a failed enumeration ends the loop
AfterEnumFailureExit == "done"

\* sleep_for(seconds(5)); continue; after a failed or empty EnumPrinters
AfterEnumFailure == "sleep5"

(* ------------------------ main() and commandLoop() -------------------- *)

\* main(): logMessage("Initializing ...")
CmdMain ==
    /\ pc["cmd"] = "main"
    /\ CallLog(pc, "cmd", "Initializing", "main_spawn")
    /\ UNCHANGED <<monitoringActive, printJobs, jobsMutex, logMutex,
                   monitorThread, periodicSaveThread, afterStop, monVars, psI,
                   osVars, normVars, everInserted, lateInsert, terminated,
                   aliveLoops, lateSleep>>

\* main(): periodicSaveThread = std::thread(periodicSave); commandLoop()
CmdSpawnSave ==
    /\ pc["cmd"] = "main_spawn"
    /\ periodicSaveThread' = "joinable"
    /\ pc' = [pc EXCEPT !["cmd"] = "idle", !["ps"] = "ps_while"]
    /\ UNCHANGED <<monitoringActive, printJobs, jobsMutex, logMutex,
                   monitorThread, ret, logMsg, afterStop, monVars, psI, osVars,
                   normVars, everInserted, lateInsert, terminated, aliveLoops,
                   lateSleep>>

\* "start": startMonitoring() up to monitoringActive = true
CmdStart ==
    /\ pc["cmd"] = "idle"
    /\ IF AlreadyActive
       THEN /\ CallLog(pc, "cmd", "Monitoring is already active.", "idle")
            /\ UNCHANGED <<monitoringActive, lateInsert>>
       ELSE /\ monitoringActive' = TRUE
            /\ lateInsert' = FALSE
            /\ pc' = [pc EXCEPT !["cmd"] = "start_spawn"]
            /\ UNCHANGED <<ret, logMsg>>
    /\ UNCHANGED <<printJobs, jobsMutex, logMutex, monitorThread,
                   periodicSaveThread, afterStop, monVars, psI, osVars,
                   normVars, everInserted, terminated, aliveLoops, lateSleep>>

\* startMonitoring(): monitorThread = std::thread(monitorPrintJobs) inside
\* the try block.  The constructor may throw (the catch logs and leaves the
\* flag set); move-assigning to a joinable std::thread calls
\* std::terminate(), after the new thread was started.
CmdSpawn ==
    /\ pc["cmd"] = "start_spawn"
    /\ \E ok \in BOOLEAN :
        IF ok
        THEN /\ aliveLoops' = aliveLoops + 1
             /\ IF monitorThread = "joinable"
                THEN /\ terminated' = TRUE
                     /\ UNCHANGED <<monitorThread, pc, ret, logMsg, lateSleep>>
                ELSE /\ monitorThread' = "joinable"
                     /\ CallLog([pc EXCEPT !["mon"] = "while"], "cmd",
                                "Print job monitoring started.", "idle")
                     /\ lateSleep' = [lateSleep EXCEPT !["mon"] = 0]
                     /\ UNCHANGED terminated
        ELSE /\ CallLog(pc, "cmd", "Failed to start monitoring thread",
                        "idle")
             /\ UNCHANGED <<monitorThread, terminated, aliveLoops, lateSleep>>
    /\ UNCHANGED <<monitoringActive, printJobs, jobsMutex, logMutex,
                   periodicSaveThread, afterStop, monVars, psI, osVars,
                   normVars, everInserted, lateInsert>>

\* "stop": stopMonitoring() up to monitoringActive = false
CmdStop ==
    /\ pc["cmd"] = "idle"
    /\ IF ~monitoringActive
       THEN /\ CallLog(pc, "cmd", "Monitoring is not active.", "idle")
            /\ UNCHANGED <<monitoringActive, afterStop>>
       ELSE /\ monitoringActive' = FALSE
            /\ afterStop' = "idle"
            /\ pc' = [pc EXCEPT !["cmd"] = "stop_join"]
            /\ UNCHANGED <<ret, logMsg>>
    /\ UNCHANGED <<printJobs, jobsMutex, logMutex, monitorThread,
                   periodicSaveThread, monVars, psI, osVars, normVars,
                   everInserted, lateInsert, terminated, aliveLoops,
                   lateSleep>>

\* stopMonitoring(): if (monitorThread.joinable()) monitorThread.join();
\* logMessage("... stopped.")
CmdJoin ==
    /\ pc["cmd"] = "stop_join"
    /\ JoinReturns
    /\ monitorThread' = "empty"
    /\ CallLog([pc EXCEPT !["mon"] =
                    IF pc["mon"] = "done" THEN "none" ELSE pc["mon"]],
               "cmd", "Print job monitoring stopped.", afterStop)
    /\ afterStop' = ""
    /\ UNCHANGED <<monitoringActive, printJobs, jobsMutex, logMutex,
                   periodicSaveThread, monVars, psI, osVars, normVars,
                   everInserted, lateInsert, terminated, aliveLoops,
                   lateSleep>>

\* "quit" / "exit": if (monitoringActive) stopMonitoring(); break
CmdQuit ==
    /\ pc["cmd"] = "idle"
    /\ IF monitoringActive
       THEN /\ monitoringActive' = FALSE
            /\ afterStop' = "main_exit"
            /\ pc' = [pc EXCEPT !["cmd"] = "stop_join"]
       ELSE /\ pc' = [pc EXCEPT !["cmd"] = "main_exit"]
            /\ UNCHANGED <<monitoringActive, afterStop>>
    /\ UNCHANGED <<printJobs, jobsMutex, logMutex, monitorThread,
                   periodicSaveThread, ret, logMsg, monVars, psI, osVars,
                   normVars, everInserted, lateInsert, terminated, aliveLoops,
                   lateSleep>>

\* main() after commandLoop(): monitoringActive = false
CmdMainExit ==
    /\ pc["cmd"] = "main_exit"
    /\ monitoringActive' = FALSE
    /\ pc' = [pc EXCEPT !["cmd"] = "main_join"]
    /\ UNCHANGED <<printJobs, jobsMutex, logMutex, monitorThread,
                   periodicSaveThread, ret, logMsg, afterStop, monVars, psI,
                   osVars, normVars, everInserted, lateInsert, terminated,
                   aliveLoops, lateSleep>>

\* main(): if (periodicSaveThread.joinable()) periodicSaveThread.join();
\* logMessage("... exited normally.")
CmdMainJoin ==
    /\ pc["cmd"] = "main_join"
    /\ periodicSaveThread = "joinable" => pc["ps"] = "done"
    /\ periodicSaveThread' = "empty"
    /\ CallLog([pc EXCEPT !["ps"] = "none"], "cmd", "exited normally",
               "exited")
    /\ UNCHANGED <<monitoringActive, printJobs, jobsMutex, logMutex,
                   monitorThread, afterStop, monVars, psI, osVars, normVars,
                   everInserted, lateInsert, terminated, aliveLoops,
                   lateSleep>>

\* "save" and "export [file]": both call exportToCSV(filename)
CmdExport ==
    /\ pc["cmd"] = "idle"
    /\ pc' = [pc EXCEPT !["cmd"] = "exp_lock"]
    /\ UNCHANGED <<monitoringActive, printJobs, jobsMutex, logMutex,
                   monitorThread, periodicSaveThread, ret, logMsg, afterStop,
                   monVars, psI, osVars, normVars, everInserted, lateInsert,
                   terminated, aliveLoops, lateSleep>>

\* "stats": showStatistics()
CmdStats ==
    /\ pc["cmd"] = "idle"
    /\ pc' = [pc EXCEPT !["cmd"] = "stats_lock"]
    /\ UNCHANGED <<monitoringActive, printJobs, jobsMutex, logMutex,
                   monitorThread, periodicSaveThread, ret, logMsg, afterStop,
                   monVars, psI, osVars, normVars, everInserted, lateInsert,
                   terminated, aliveLoops, lateSleep>>

(* ------------------- exportToCSV() and showStatistics() --------------- *)

\* exportToCSV(): std::lock_guard<std::mutex> lock(jobsMutex)
ExpLock(t) ==
    /\ pc[t] = "exp_lock"
    /\ CanLock(jobsMutex)
    /\ jobsMutex' = t
    /\ pc' = [pc EXCEPT ![t] = "exp_open"]
    /\ UNCHANGED <<monitoringActive, printJobs, logMutex, monitorThread,
                   periodicSaveThread, ret, logMsg, afterStop, monVars, psI,
                   osVars, normVars, everInserted, lateInsert, terminated,
                   aliveLoops, lateSleep>>

\* exportToCSV(): std::ofstream file(filename); if (!file.is_open()) ...
ExpOpen(t) ==
    /\ pc[t] = "exp_open"
    /\ \E ok \in BOOLEAN :
        IF ok
        THEN /\ pc' = [pc EXCEPT ![t] = "exp_write"]
             /\ UNCHANGED <<ret, logMsg>>
        ELSE CallLog(pc, t, "Could not open file for writing", "exp_unlock")
    /\ UNCHANGED <<monitoringActive, printJobs, jobsMutex, logMutex,
                   monitorThread, periodicSaveThread, afterStop, monVars, psI,
                   osVars, normVars, everInserted, lateInsert, terminated,
                   aliveLoops, lateSleep>>

\* exportToCSV(): the header and one row per element of printJobs are
\* written; file.close(); logMessage("Data exported ...")
ExpWrite(t) ==
    /\ pc[t] = "exp_write"
    /\ CallLog(pc, t, "Data exported", "exp_unlock")
    /\ UNCHANGED <<monitoringActive, printJobs, jobsMutex, logMutex,
                   monitorThread, periodicSaveThread, afterStop, monVars, psI,
                   osVars, normVars, everInserted, lateInsert, terminated,
                   aliveLoops, lateSleep>>

\* exportToCSV(): the lock_guard is destroyed on return
ExpUnlock(t) ==
    /\ pc[t] = "exp_unlock"
    /\ jobsMutex' = "free"
    /\ pc' = [pc EXCEPT ![t] = IF t = "cmd" THEN "idle" ELSE "ps_while"]
    /\ UNCHANGED <<monitoringActive, printJobs, logMutex, monitorThread,
                   periodicSaveThread, ret, logMsg, afterStop, monVars, psI,
                   osVars, normVars, everInserted, lateInsert, terminated,
                   aliveLoops, lateSleep>>

\* showStatistics(): std::lock_guard<std::mutex> lock(jobsMutex)
StatsLock ==
    /\ pc["cmd"] = "stats_lock"
    /\ CanLock(jobsMutex)
    /\ jobsMutex' = "cmd"
    /\ pc' = [pc EXCEPT !["cmd"] = "stats_read"]
    /\ UNCHANGED <<monitoringActive, printJobs, logMutex, monitorThread,
                   periodicSaveThread, ret, logMsg, afterStop, monVars, psI,
                   osVars, normVars, everInserted, lateInsert, terminated,
                   aliveLoops, lateSleep>>

\* showStatistics(): the counts are printed; the lock_guard is destroyed
StatsShow ==
    /\ pc["cmd"] = "stats_read"
    /\ jobsMutex' = "free"
    /\ pc' = [pc EXCEPT !["cmd"] = "idle"]
    /\ UNCHANGED <<monitoringActive, printJobs, logMutex, monitorThread,
                   periodicSaveThread, ret, logMsg, afterStop, monVars, psI,
                   osVars, normVars, everInserted, lateInsert, terminated,
                   aliveLoops, lateSleep>>

(* --------------------------- monitorPrintJobs() ----------------------- *)

\* what the polling loop leaves alone
monFrame == <<monitoringActive, logMutex, monitorThread, periodicSaveThread,
              afterStop, psI, jobCap, stuckJob, terminated, normVars>>

\* while (monitoringActive)
MonWhile ==
    /\ pc["mon"] = "while"
    /\ IF monitoringActive
       THEN /\ pc' = [pc EXCEPT !["mon"] = "enum"]
            /\ UNCHANGED aliveLoops
       ELSE /\ pc' = [pc EXCEPT !["mon"] = "done"]
            /\ aliveLoops' = aliveLoops - 1
    /\ lateSleep' = [lateSleep EXCEPT !["mon"] = 0]
    /\ UNCHANGED <<monFrame, everInserted, lateInsert, printJobs, jobsMutex,
                   ret, logMsg, monVars, nextJobId>>

\* the two EnumPrinters calls; WARN or ERROR and sleep_for(seconds(5));
\* continue when no printer is reported or the call fails
MonEnumPrinters ==
    /\ pc["mon"] = "enum"
    /\ \E r \in EnumPrintersResults :
        IF r = 0
        THEN /\ CallLog(pc, "mon", "No printers found", AfterEnumFailure)
             /\ sleepLeft' = RetrySecs
             /\ UNCHANGED <<numPrinters, i>>
        ELSE IF r = -1
        THEN /\ CallLog(pc, "mon", "Failed to enumerate printers",
                        AfterEnumFailure)
             /\ sleepLeft' = RetrySecs
             /\ UNCHANGED <<numPrinters, i>>
        ELSE /\ numPrinters' = r
             /\ i' = 0
             /\ pc' = [pc EXCEPT !["mon"] = "devloop"]
             /\ UNCHANGED <<ret, logMsg, sleepLeft>>
    /\ UNCHANGED <<monFrame, everInserted, lateInsert, cycle, printJobs,
                   jobsMutex, hPrinter, pJobInfo, j, job, exists, waitI,
                   nextJobId, aliveLoops, lateSleep>>

\* one second of sleep_for(seconds(5)) passes; the flag is not read
MonRetrySleep ==
    /\ pc["mon"] = "sleep5"
    /\ sleepLeft' = sleepLeft - 1
    /\ lateSleep' = [lateSleep EXCEPT !["mon"] =
                        IF monitoringActive THEN @ ELSE @ + 1]
    /\ pc' = [pc EXCEPT !["mon"] = IF sleepLeft = 1 THEN "while" ELSE @]
    /\ UNCHANGED <<monFrame, everInserted, lateInsert, cycle, printJobs,
                   jobsMutex, ret, logMsg, numPrinters, i, hPrinter, pJobInfo,
                   j, job, exists, waitI, nextJobId, aliveLoops>>

\* for (i = 0; i < numPrinters && monitoringActive; ++i)
MonDevLoop ==
    /\ pc["mon"] = "devloop"
    /\ IF i < numPrinters /\ monitoringActive
       THEN /\ pc' = [pc EXCEPT !["mon"] = "open"]
            /\ UNCHANGED <<waitI, numPrinters, i, cycle>>
       ELSE /\ pc' = [pc EXCEPT !["mon"] = "wait"]
            /\ waitI' = 0
            /\ numPrinters' = 0
            /\ i' = 0
            /\ cycle' = NoCycle
    /\ UNCHANGED <<monFrame, everInserted, lateInsert, printJobs, jobsMutex,
                   ret, logMsg, hPrinter, pJobInfo, j, job, exists, sleepLeft,
                   nextJobId, aliveLoops, lateSleep>>

\* where the device loop goes on after the else branch of OpenPrinterA: a
\* cycle that is given up continues at the wait
AfterOpenFailureAbort == "wait"

\* where the device loop goes on after the else branch of OpenPrinterA
AfterOpenFailure == "devloop"

\* OpenPrinterA(...); on failure logMessage("ERROR", ...) and ++i
MonOpen ==
    /\ pc["mon"] = "open"
    /\ \E ok \in BOOLEAN :
        IF ok
        THEN /\ hPrinter' = i + 1
             /\ pc' = [pc EXCEPT !["mon"] = "enumjobs"]
             /\ cycle' = [cycle EXCEPT !.attempted = @ \cup {i}]
             /\ UNCHANGED <<ret, logMsg, i>>
        ELSE /\ CallLog(pc, "mon", "Could not open printer",
                        AfterOpenFailure)
             /\ i' = i + 1
             /\ cycle' = [attempted |-> cycle.attempted \cup {i},
                          failed |-> TRUE]
             /\ UNCHANGED hPrinter
    /\ UNCHANGED <<monFrame, everInserted, lateInsert, printJobs, jobsMutex,
                   numPrinters, pJobInfo, j, job, exists, waitI, sleepLeft,
                   nextJobId, aliveLoops, lateSleep>>

\* the two EnumJobs calls on the open printer
MonEnumJobs ==
    /\ pc["mon"] = "enumjobs"
    /\ \E r \in EnumJobsResults(i + 1) :
        /\ nextJobId' = [nextJobId EXCEPT ![i + 1] = @ + r.fresh]
        /\ IF ~r.ok
           THEN /\ CallLog(pc, "mon", "Failed to enumerate jobs", "close")
                /\ cycle' = [cycle EXCEPT !.failed = TRUE]
                /\ UNCHANGED <<pJobInfo, j>>
           ELSE IF r.jobs = <<>>
           THEN /\ pc' = [pc EXCEPT !["mon"] = "close"]
                /\ UNCHANGED <<ret, logMsg, pJobInfo, j, cycle>>
           ELSE /\ pJobInfo' = r.jobs
                /\ j' = 0
                /\ pc' = [pc EXCEPT !["mon"] = "jobloop"]
                /\ UNCHANGED <<ret, logMsg, cycle>>
    /\ UNCHANGED <<monFrame, everInserted, lateInsert, printJobs, jobsMutex,
                   numPrinters, i, hPrinter, job, exists, waitI, sleepLeft,
                   aliveLoops, lateSleep>>

\* for (j = 0; j < numJobs && monitoringActive; ++j) { PrintJob job; ... }
MonJobLoop ==
    /\ pc["mon"] = "jobloop"
    /\ IF j < Len(pJobInfo) /\ monitoringActive
       THEN /\ job' = MakeJob(i, pJobInfo[j + 1])
            /\ pc' = [pc EXCEPT !["mon"] = "lock"]
            /\ UNCHANGED <<pJobInfo, j>>
       ELSE /\ job' = NoJob
            /\ pJobInfo' = <<>>
            /\ j' = 0
            /\ pc' = [pc EXCEPT !["mon"] = "close"]
    /\ exists' = FALSE
    /\ UNCHANGED <<monFrame, everInserted, lateInsert, cycle, printJobs,
                   jobsMutex, ret, logMsg, numPrinters, i, hPrinter, waitI,
                   sleepLeft, nextJobId, aliveLoops, lateSleep>>

\* std::lock_guard<std::mutex> lock(jobsMutex)
MonLock ==
    /\ pc["mon"] = "lock"
    /\ CanLock(jobsMutex)
    /\ jobsMutex' = "mon"
    /\ pc' = [pc EXCEPT !["mon"] = "scan"]
    /\ UNCHANGED <<monFrame, everInserted, lateInsert, printJobs, ret, logMsg,
                   monVars, nextJobId, aliveLoops, lateSleep>>

\* faulty variant: the scan writes the observed status into the record it
\* finds
MonScanUpdating ==
    /\ pc["mon"] = "scan"
    /\ exists' = JobExists(printJobs, job)
    /\ printJobs' =
          [k \in 1 .. Len(printJobs) |->
              IF /\ printJobs[k].jobId = job.jobId
                 /\ printJobs[k].printerName = job.printerName
              THEN [printJobs[k] EXCEPT !.status = job.status]
              ELSE printJobs[k]]
    /\ pc' = [pc EXCEPT !["mon"] = IF exists' THEN "unlock" ELSE "push"]
    /\ UNCHANGED <<monFrame, everInserted, lateInsert, cycle, jobsMutex, ret,
                   logMsg, numPrinters, i, hPrinter, pJobInfo, j, job, waitI,
                   sleepLeft, nextJobId, aliveLoops, lateSleep>>

\* the scan of printJobs that sets exists
MonScan ==
    /\ pc["mon"] = "scan"
    /\ exists' = JobExists(printJobs, job)
    /\ pc' = [pc EXCEPT !["mon"] = IF exists' THEN "unlock" ELSE "push"]
    /\ UNCHANGED <<monFrame, everInserted, lateInsert, cycle, printJobs,
                   jobsMutex, ret, logMsg, numPrinters, i, hPrinter, pJobInfo,
                   j, job, waitI, sleepLeft, nextJobId, aliveLoops, lateSleep>>

\* printJobs.push_back(job)
MonPush ==
    /\ pc["mon"] = "push"
    /\ printJobs' = Append(printJobs, job)
    /\ everInserted' = everInserted \cup {<<job.printerName, job.jobId>>}
    /\ lateInsert' = (lateInsert \/ ~monitoringActive)
    /\ pc' = [pc EXCEPT !["mon"] = "evict"]
    /\ UNCHANGED <<monFrame, jobsMutex, ret, logMsg, monVars, nextJobId,
                   aliveLoops, lateSleep>>

\* if (printJobs.size() > 1000) printJobs.erase(begin, begin + 100)
MonEvict ==
    /\ pc["mon"] = "evict"
    /\ IF OverHighWater(printJobs)
       THEN printJobs' = EraseOldest(printJobs)
       ELSE UNCHANGED printJobs
    /\ pc' = [pc EXCEPT !["mon"] = "unlock"]
    /\ UNCHANGED <<monFrame, everInserted, lateInsert, jobsMutex, ret, logMsg,
                   monVars, nextJobId, aliveLoops, lateSleep>>

\* the lock_guard is destroyed at the end of the block
MonUnlock ==
    /\ pc["mon"] = "unlock"
    /\ jobsMutex' = "free"
    /\ pc' = [pc EXCEPT !["mon"] = "joblog"]
    /\ UNCHANGED <<monFrame, everInserted, lateInsert, printJobs, ret, logMsg,
                   monVars, nextJobId, aliveLoops, lateSleep>>

\* if (monitoringActive) logMessage("INFO", "Detected print job: ..."); ++j
MonJobLog ==
    /\ pc["mon"] = "joblog"
    /\ IF monitoringActive
       THEN CallLog(pc, "mon", "Detected print job", "jobloop")
       ELSE /\ pc' = [pc EXCEPT !["mon"] = "jobloop"]
            /\ UNCHANGED <<ret, logMsg>>
    /\ j' = j + 1
    /\ UNCHANGED <<monFrame, everInserted, lateInsert, cycle, printJobs,
                   jobsMutex, numPrinters, i, hPrinter, pJobInfo, job, exists,
                   waitI, sleepLeft, nextJobId, aliveLoops, lateSleep>>

\* the end of the device loop body with ClosePrinter left out
MonCloseLeaking ==
    /\ pc["mon"] = "close"
    /\ i' = i + 1
    /\ pc' = [pc EXCEPT !["mon"] = "devloop"]
    /\ UNCHANGED <<monFrame, everInserted, lateInsert, cycle, printJobs,
                   jobsMutex, ret, logMsg, numPrinters, hPrinter, pJobInfo, j,
                   job, exists, waitI, sleepLeft, nextJobId, aliveLoops,
                   lateSleep>>

\* ClosePrinter(hPrinter); ++i
MonClose ==
    /\ pc["mon"] = "close"
    /\ hPrinter' = 0
    /\ i' = i + 1
    /\ pc' = [pc EXCEPT !["mon"] = "devloop"]
    /\ UNCHANGED <<monFrame, everInserted, lateInsert, cycle, printJobs,
                   jobsMutex, ret, logMsg, numPrinters, pJobInfo, j, job,
                   exists, waitI, sleepLeft, nextJobId, aliveLoops, lateSleep>>

\* for (int i = 0; i < 10 && monitoringActive; ++i)
MonWait ==
    /\ pc["mon"] = "wait"
    /\ IF waitI < PollWaitSecs /\ monitoringActive
       THEN /\ pc' = [pc EXCEPT !["mon"] = "wait_sleep"]
            /\ UNCHANGED waitI
       ELSE /\ pc' = [pc EXCEPT !["mon"] = "while"]
            /\ waitI' = 0
    /\ lateSleep' = [lateSleep EXCEPT !["mon"] = 0]
    /\ UNCHANGED <<monFrame, everInserted, lateInsert, cycle, printJobs,
                   jobsMutex, ret, logMsg, numPrinters, i, hPrinter, pJobInfo,
                   j, job, exists, sleepLeft, nextJobId, aliveLoops>>

\* sleep_for(seconds(1)); ++i
MonWaitSleep ==
    /\ pc["mon"] = "wait_sleep"
    /\ waitI' = waitI + 1
    /\ lateSleep' = [lateSleep EXCEPT !["mon"] =
                        IF monitoringActive THEN @ ELSE @ + 1]
    /\ pc' = [pc EXCEPT !["mon"] = "wait"]
    /\ UNCHANGED <<monFrame, everInserted, lateInsert, cycle, printJobs,
                   jobsMutex, ret, logMsg, numPrinters, i, hPrinter, pJobInfo,
                   j, job, exists, sleepLeft, nextJobId, aliveLoops>>

(* ------------------------------ periodicSave() ------------------------ *)

psFrame == <<monitoringActive, printJobs, jobsMutex, logMutex,
             monitorThread, periodicSaveThread, ret, logMsg, afterStop,
             monVars, osVars, normVars, everInserted, lateInsert, terminated,
             aliveLoops>>

\* while (monitoringActive)
PsWhile ==
    /\ pc["ps"] = "ps_while"
    /\ pc' = [pc EXCEPT !["ps"] =
                 IF monitoringActive THEN "ps_wait" ELSE "done"]
    /\ psI' = 0
    /\ lateSleep' = [lateSleep EXCEPT !["ps"] = 0]
    /\ UNCHANGED psFrame

\* for (int i = 0; i < 1800 && monitoringActive; ++i)
PsWait ==
    /\ pc["ps"] = "ps_wait"
    /\ pc' = [pc EXCEPT !["ps"] =
                 IF psI < SaveSecs /\ monitoringActive
                 THEN "ps_sleep" ELSE "ps_if"]
    /\ lateSleep' = [lateSleep EXCEPT !["ps"] = 0]
    /\ UNCHANGED <<psFrame, psI>>

\* sleep_for(seconds(1)); ++i.  The counter is exact in the first and in
\* the last MaxSaveTicks increments of the wait; in between, the value
\* MaxSaveTicks stands for every value below SaveSecs - MaxSaveTicks.
PsSleep ==
    /\ pc["ps"] = "ps_sleep"
    /\ psI' \in (IF psI = MaxSaveTicks
                 THEN {psI, SaveSecs - MaxSaveTicks}
                 ELSE {psI + 1})
    /\ lateSleep' = [lateSleep EXCEPT !["ps"] =
                        IF monitoringActive THEN @ ELSE @ + 1]
    /\ pc' = [pc EXCEPT !["ps"] = "ps_wait"]
    /\ UNCHANGED psFrame

\* if (monitoringActive) exportToCSV("print_jobs_auto_save_<time>.csv")
PsIf ==
    /\ pc["ps"] = "ps_if"
    /\ pc' = [pc EXCEPT !["ps"] =
                 IF monitoringActive THEN "exp_lock" ELSE "ps_while"]
    /\ psI' = 0
    /\ UNCHANGED <<psFrame, lateSleep>>

(* ------------------------------ specification ------------------------- *)

CmdNext ==
    \/ CmdMain \/ CmdSpawnSave \/ CmdStart \/ CmdSpawn \/ CmdStop
    \/ CmdJoin \/ CmdQuit \/ CmdMainExit \/ CmdMainJoin \/ CmdExport
    \/ CmdStats \/ StatsLock \/ StatsShow

MonNext ==
    \/ MonWhile \/ MonEnumPrinters \/ MonRetrySleep \/ MonDevLoop
    \/ MonOpen \/ MonEnumJobs \/ MonJobLoop \/ MonLock \/ MonScan
    \/ MonPush \/ MonEvict \/ MonUnlock \/ MonJobLog \/ MonClose
    \/ MonWait \/ MonWaitSleep

PsNext == PsWhile \/ PsWait \/ PsSleep \/ PsIf

ExportNext ==
    \E t \in {"cmd", "ps"} :
        ExpLock(t) \/ ExpOpen(t) \/ ExpWrite(t) \/ ExpUnlock(t)

LogNext == \E t \in Threads : LogAcquire(t) \/ LogWrite(t)

\* the commands start, stop and quit, and main() around commandLoop()
CmdLifeNext ==
    \/ CmdStart \/ CmdSpawn \/ CmdStop \/ CmdJoin \/ CmdQuit
    \/ CmdMainExit \/ CmdMainJoin

\* the commands save, export and stats
CmdReadNext == CmdExport \/ CmdStats \/ StatsLock \/ StatsShow

Next ==
    /\ ~terminated
    /\ (CmdNext \/ MonNext \/ PsNext \/ ExportNext \/ LogNext)

NextLife ==
    /\ ~terminated
    /\ (CmdLifeNext \/ MonNext \/ LogNext)

NextStore ==
    /\ ~terminated
    /\ (CmdReadNext \/ ExportNext \/ MonNext \/ LogNext)

\* the whole program, from the start of main()
Spec == Init /\ [][Next]_vars

\* the user types start, stop and quit
SpecLife == InitLife /\ [][NextLife]_vars

\* the polling loop runs on a store close to its high-water mark while the
\* user types save, export and stats
SpecStore == InitStore /\ [][NextStore]_vars

\* EnumJobs on printer p and the job loop over its result, taken as one
\* step: what the polling loop does to the store when no other thread runs
\* in between.
PollJobs(p) ==
    /\ monitoringActive
    /\ pc["mon"] = "while"
    /\ jobsMutex = "free"
    /\ \E r \in EnumJobsResults(p) :
        /\ r.ok
        /\ nextJobId' = [nextJobId EXCEPT ![p] = @ + r.fresh]
        /\ printJobs' = InsertAll(printJobs, p - 1, r.jobs)
        /\ everInserted' = everInserted \cup Pairs(printJobs')
    /\ UNCHANGED <<monFrame, jobsMutex, pc, ret, logMsg, monVars, aliveLoops,
                   lateSleep, lateInsert>>

NextLong ==
    /\ ~terminated
    /\ \E p \in Printers : PollJobs(p)

\* the job loop takes a store of LongPrefill records over the high-water
\* mark, one EnumJobs result after the other
SpecLong == InitLong /\ [][NextLong]_vars

NextCommands ==
    /\ ~terminated
    /\ (CmdLifeNext \/ CmdReadNext \/ ExportNext \/ MonNext \/ LogNext)

\* the user types start, stop, quit, save, export and stats
SpecCommands == InitLife /\ [][NextCommands]_vars

\* The process when "start" was typed before periodicSave() read the flag:
\* both loops are alive, the polling loop is at the top of a cycle, job 1
\* of printer 1 is recorded and stays in the queue.
InitLocks ==
    /\ InitCommon
    /\ InitNorm
    /\ everInserted = Pairs(Prefill(1))
    /\ monitoringActive = TRUE
    /\ monitorThread = "joinable"
    /\ periodicSaveThread = "joinable"
    /\ aliveLoops = 1
    /\ printJobs = Prefill(1)
    /\ pc = [cmd |-> "idle", mon |-> "while", ps |-> "ps_while"]
    /\ nextJobId = [p \in Printers |-> IF p = 1 THEN 2 ELSE 1]
    /\ jobCap = [p \in Printers |-> IF p = 1 THEN 1 ELSE 0]
    /\ stuckJob = [p \in Printers |-> 0]

NextLocks ==
    /\ ~terminated
    /\ \/ CmdStart \/ CmdSpawn \/ CmdStop \/ CmdJoin
       \/ CmdReadNext \/ ExportNext \/ MonNext \/ PsNext \/ LogNext

\* The steps thread t takes by itself once the user's command is read: the
\* scheduler runs it when it can run, and a thread blocked in lock() is
\* woken when the mutex is released.
Runs(t) ==
    /\ ~terminated
    /\ \/ LogAcquire(t) \/ LogWrite(t)
       \/ t = "mon" /\ MonNext
       \/ t = "ps" /\ PsNext
       \/ t = "cmd" /\ (CmdSpawn \/ CmdJoin \/ StatsLock \/ StatsShow)
       \/ t # "mon" /\ (ExpLock(t) \/ ExpOpen(t) \/ ExpWrite(t)
                            \/ ExpUnlock(t))

Fairness == \A t \in Threads : SF_vars(Runs(t))

\* the polling loop, the periodic export loop and the commands start, stop,
\* save, export and stats, every thread scheduled fairly
SpecLocks == InitLocks /\ [][NextLocks]_vars /\ Fairness

(* ------------------------- the job loop in full ---------------------- *)

\* std::string::find('"', pos), positions counted from 1, 0 for npos
Find(str, pos) ==
    LET hits == {q \in pos .. Len(str) : str[q] = Q} IN
    IF hits = {} THEN 0
    ELSE CHOOSE q \in hits : \A r \in hits : q <= r

\* faulty variant: only the first double quote is replaced
EscapeFromOnce(str, pos) ==
    LET q == Find(str, pos) IN
    IF q = 0 THEN str
    ELSE SubSeq(str, 1, q - 1) \o <<Q, Q>> \o SubSeq(str, q + 1, Len(str))

RECURSIVE EscapeFrom(_, _)
\* while ((pos = s.find('"', pos)) != npos) { s.replace(pos, 1, "\"\"");
\* pos += 2; }
EscapeFrom(str, pos) ==
    LET q == Find(str, pos) IN
    IF q = 0 THEN str
    ELSE EscapeFrom(SubSeq(str, 1, q - 1) \o <<Q, Q>>
                        \o SubSeq(str, q + 1, Len(str)),
                    q + 2)

\* "\"" << field << "\""
Quoted(str) == <<Q>> \o str \o <<Q>>

\* the ten fields exportToCSV writes for one element of printJobs
CsvFields(jb) ==
    <<Quoted(EscapeFrom(jb.printerName, 1)),
      Quoted(jb.timestamp),
      Quoted(EscapeFrom(jb.status, 1)),
      ToDecimal(jb.pages),
      ToDecimal(jb.documentSize),
      Quoted(EscapeFrom(jb.colorMode, 1)),
      Quoted(EscapeFrom(jb.duplexSetting, 1)),
      Quoted(EscapeFrom(jb.paperSize, 1)),
      Quoted(EscapeFrom(jb.userAccount, 1)),
      Quoted(EscapeFrom(jb.jobId, 1))>>

RECURSIVE JoinFields(_)
\* the fields with "," between them and "\n" at the end
JoinFields(fields) ==
    IF Len(fields) = 1 THEN Head(fields) \o <<"\n">>
    ELSE Head(fields) \o <<",">> \o JoinFields(Tail(fields))

\* the row exportToCSV writes for one element of printJobs
CsvRow(jb) == JoinFields(CsvFields(jb))

\* the tokens names are drawn from
Alphabet == {"a", Q, ","}

Strings(n) == UNION {[1 .. k -> Alphabet] : k \in 0 .. n}

\* the device name He said "hi"
HeSaidHi == <<"He said ", Q, "hi", Q>>

\* 32-bit unsigned values around the sign bit of int
Dwords ==
    {Dword(0, 0), Dword(0, 1), Dword(2 ^ 15 - 1, 2 ^ 16 - 1),
     Dword(2 ^ 15, 0), Dword(2 ^ 16 - 1, 2 ^ 16 - 1)}

\* dmFields: the three flags the decoders test and one they do not
FieldMasks ==
    {a + b * DM_PAPERSIZE + c * DM_COLOR + d * DM_DUPLEX :
        a \in {0, 1}, b \in {0, 1}, c \in {0, 1}, d \in {0, 1}}

DevModes ==
    {NullDevMode} \cup
    [null : {FALSE}, dmFields : FieldMasks, dmColor : -1 .. MaxColor,
     dmDuplex : -1 .. MaxDuplex, dmPaperSize : -1 .. MaxPaper]

\* a job as EnumJobs reports it
PlainInfo ==
    [pPrinterName |-> <<"a">>, Status |-> 0, TotalPages |-> Dword(0, 1),
     PagesPrinted |-> Dword(0, 0), Size |-> Dword(0, 1),
     pUserName |-> <<"a">>, JobId |-> 1,
     pDevMode |-> NullDevMode]

\* the JOB_INFO_2A elements drawn: PlainInfo with its status, its device
\* mode, its counts or its names replaced
JobInfos ==
    {[PlainInfo EXCEPT !.Status = m] : m \in 0 .. (2 ^ StatusBits - 1)}
    \cup {[PlainInfo EXCEPT !.pDevMode = dm] : dm \in DevModes}
    \cup {[PlainInfo EXCEPT !.TotalPages = t, !.PagesPrinted = pp,
                            !.Size = sz, !.JobId = id] :
            t \in Dwords, pp \in Dwords, sz \in Dwords, id \in {1, 1000}}
    \cup {[PlainInfo EXCEPT !.pPrinterName = n, !.pUserName = u] :
            n \in Strings(MaxStrLen) \cup {HeSaidHi},
            u \in Strings(MaxStrLen) \cup {NullStr}}

\* The polling loop at one job of one EnumJobs result, with an empty store.
InitJob ==
    /\ InitCommon
    /\ everInserted = {}
    /\ monitoringActive = TRUE
    /\ monitorThread = "joinable"
    /\ periodicSaveThread = "joinable"
    /\ aliveLoops = 1
    /\ printJobs = <<>>
    /\ pc = [cmd |-> "idle", mon |-> "while", ps |-> "done"]
    /\ nextJobId = [p \in Printers |-> 1]
    /\ jobCap = [p \in Printers |-> 0]
    /\ stuckJob = [p \in Printers |-> 0]
    /\ enumInfo \in JobInfos
    /\ fullJob = NoFullJob
    /\ csvRow = <<>>

jobFrame == <<monitoringActive, jobsMutex, logMutex, monitorThread,
              periodicSaveThread, pc, ret, logMsg, afterStop, monVars, psI,
              osVars, terminated, aliveLoops, lateSleep, enumInfo>>

\* the body of the job loop that fills PrintJob job
JobBuild ==
    /\ fullJob = NoFullJob
    /\ fullJob' = FullJob(enumInfo)
    /\ UNCHANGED <<jobFrame, printJobs, everInserted, lateInsert, csvRow>>

\* the critical section of the job loop on that job
JobInsert ==
    /\ fullJob # NoFullJob
    /\ printJobs = <<>>
    /\ printJobs' = InsertIfNovel(printJobs, fullJob)
    /\ everInserted' = everInserted \cup Pairs(printJobs')
    /\ UNCHANGED <<jobFrame, fullJob, csvRow, lateInsert>>

\* exportToCSV(): the row of the stored job
JobExport ==
    /\ printJobs # <<>>
    /\ csvRow = <<>>
    /\ csvRow' = CsvRow(printJobs[1])
    /\ UNCHANGED <<jobFrame, printJobs, everInserted, lateInsert, fullJob>>

NextJob ==
    /\ ~terminated
    /\ (JobBuild \/ JobInsert \/ JobExport)

\* one job from the spooler's JOB_INFO_2A to its CSV row
SpecJob == InitJob /\ [][NextJob]_vars

(* ------------------------------- claims ------------------------------- *)

NoDuplicates(store) == Cardinality(Pairs(store)) = Len(store)

\* C1: whenever the store lock is not held, no two records of the store
\* have the same (device name, job identifier) pair; and after each
\* insertion attempt the store holds a record with the pair of the job that
\* was offered, so a job id already stored for another printer is kept too.
C1_NoDuplicatePairs ==
    /\ jobsMutex = "free" => NoDuplicates(printJobs)
    /\ pc["mon"] = "joblog" =>
          <<job.printerName, job.jobId>> \in Pairs(printJobs)

\* C1 witness: the lock is free, a job seen before was offered again and
\* discarded, and the store keeps the same job id for two printers.
C1_Witness ==
    /\ jobsMutex = "free"
    /\ pc["mon"] = "joblog"
    /\ exists
    /\ \E a, b \in 1 .. Len(printJobs) :
          /\ printJobs[a].jobId = printJobs[b].jobId
          /\ printJobs[a].printerName # printJobs[b].printerName

\* C2: whenever the polling loop is outside its critical section, that is
\* after every completed insertion attempt, the store holds at most 1000
\* records.
C2_SizeBound ==
    jobsMutex # "mon" => Len(printJobs) <= HighWater

\* C2 witness: an insertion has just completed with an eviction.
C2_Witness ==
    /\ pc["mon"] = "joblog"
    /\ ~exists
    /\ Len(printJobs) = HighWater + 1 - EvictCount

\* the store C3 expects once the last of the LongFresh jobs is recorded
C3_Expected ==
    [k \in 1 .. (LongPrefill + LongFresh - EvictCount) |->
        [printerName |-> 1, jobId |-> k + EvictCount, status |-> "Spooling"]]

C3_Final ==
    (/\ Len(printJobs) > 0
     /\ printJobs[Len(printJobs)].jobId = LongPrefill + LongFresh)
    => printJobs = C3_Expected

C3_Step ==
    printJobs' # printJobs =>
        LET jb == printJobs'[Len(printJobs')]
            pushed == Append(printJobs, jb)
        IN  /\ ~JobExists(printJobs, jb)
            /\ Len(printJobs) <= HighWater
            /\ IF Len(pushed) = HighWater + 1
               THEN /\ Len(printJobs') = HighWater + 1 - EvictCount
                    /\ \A k \in 1 .. Len(printJobs') :
                          printJobs'[k] = pushed[k + EvictCount]
               ELSE printJobs' = pushed

\* C3: an insertion changes the store by appending the new record and,
\* exactly when that makes the size 1001, removing the first 100 records
\* with the rest kept in order; and a store
\* of LongPrefill records that has received LongFresh further distinct
\* jobs holds exactly the most recent LongPrefill + LongFresh - 100, in
\* insertion order.
C3_Eviction == []C3_Final /\ [][C3_Step]_vars

\* C3 witness: the 150th further job is recorded and 950 records remain.
C3_Witness ==
    /\ nextJobId[1] = LongPrefill + LongFresh + 1
    /\ printJobs = C3_Expected

C4_Step ==
    (pc["cmd"] = "idle" /\ monitoringActive /\ pc'["cmd"] # "idle"
        /\ logMsg'["cmd"] = "Monitoring is already active.")
    => UNCHANGED <<monitoringActive, monitorThread, aliveLoops, printJobs,
                   monVars>> /\ pc'["mon"] = pc["mon"]

C4_Alive ==
    /\ aliveLoops <= 1
    /\ ~terminated
    /\ logMsg["cmd"] = "Monitoring is already active." =>
          /\ monitoringActive
          /\ monitorThread = "joinable" =>
                aliveLoops = 1 /\ pc["mon"] \notin {"none", "done"}

\* C4: at most one polling loop is alive in every reachable state, and a
\* start command given while the flag is set changes neither the flag nor
\* the polling thread: the loop that runs keeps running and none is spawned.
C4_StartIdempotent == []C4_Alive /\ [][C4_Step]_vars

\* C4 witness: start was typed while a polling loop runs.
C4_Witness ==
    /\ logMsg["cmd"] = "Monitoring is already active."
    /\ aliveLoops = 1
    /\ pc["mon"] \notin {"none", "done"}

C5_Step ==
    (pc["cmd"] = "idle" /\ ~monitoringActive /\ pc'["cmd"] # "idle"
        /\ logMsg'["cmd"] = "Monitoring is not active.")
    => UNCHANGED <<monitoringActive, monitorThread, aliveLoops, printJobs,
                   monVars>> /\ pc'["mon"] = pc["mon"]

C5_Stopped ==
    /\ (~monitoringActive /\ pc["cmd"] # "stop_join") =>
          aliveLoops = 0 /\ pc["mon"] = "none" /\ monitorThread = "empty"
    /\ logMsg["cmd"] = "Print job monitoring stopped." => ~monitoringActive

\* C5: once stopMonitoring() is past its join the flag is clear and no
\* polling loop is alive, and this stays so while the flag is clear; a stop
\* command given while the flag is clear changes no state and joins nothing.
C5_StopJoins == []C5_Stopped /\ [][C5_Step]_vars

\* C5 witness: stop has joined a polling loop that had recorded a job.
C5_Witness ==
    /\ logMsg["cmd"] = "Print job monitoring stopped."
    /\ printJobs # <<>>

\* C6: while the flag is set and start has returned, the periodic export
\* loop is alive.
C6_SaveLoopAlive ==
    (monitoringActive /\ pc["cmd"] = "idle" /\ monitorThread = "joinable")
    => pc["ps"] \notin {"none", "done"}

\* C7: a loop sleeps at most one 1 s increment with the flag clear before
\* it reads the flag again.
C7_PromptShutdown == \A t \in Threads : lateSleep[t] <= 1

\* C8: a "Detected print job" line is written only for a job that was
\* newly inserted.
C8_LogOnlyNew ==
    (pc["mon"] = "logging" /\ logMsg["mon"] = "Detected print job")
    => ~exists

\* a thread is at a point of exportToCSV() or showStatistics() that reads
\* printJobs
Reading(t) ==
    \/ pc[t] \in {"exp_write", "stats_read"}
    \/ pc[t] \in {"log", "logging"} /\ logMsg[t] = "Data exported"

\* C9: whenever an export or the statistics command reads the store, the
\* polling loop is outside its critical section, and the store holds at
\* most 1000 records and no two with the same (device, job id).
C9_ReadersConsistent ==
    \A t \in {"cmd", "ps"} :
        Reading(t) =>
            /\ pc["mon"] \notin {"scan", "push", "evict", "unlock"}
            /\ Len(printJobs) <= HighWater
            /\ NoDuplicates(printJobs)

\* C9 witness: an export writes a full store while the polling loop waits
\* for the lock with a new job, whose insertion will evict.
C9_Witness ==
    /\ pc["cmd"] = "exp_write"
    /\ pc["mon"] = "lock"
    /\ Len(printJobs) = HighWater
    /\ ~JobExists(printJobs, job)

\* C10: the polling loop has ended only with the flag clear, and while it
\* lives it can take a step unless it waits for a mutex another thread
\* holds.
C10_LoopNeverEndsItself ==
    /\ pc["mon"] = "done" => ~monitoringActive /\ pc["cmd"] = "stop_join"
    /\ pc["mon"] \notin {"none", "done"} =>
          \/ ENABLED (MonNext \/ LogAcquire("mon") \/ LogWrite("mon"))
          \/ pc["mon"] = "log" /\ logMutex # "free"
          \/ pc["mon"] = "lock" /\ jobsMutex # "free"

\* C10 witness: EnumPrinters failed or found nothing, the loop is at the
\* end of its 5 s wait and the flag is still set.
C10_Witness ==
    /\ pc["mon"] = "sleep5"
    /\ sleepLeft = 1
    /\ monitoringActive

\* C11: the polling loop pushes a record only for a (printer, job id) pair
\* that was never pushed before.
C11_InsertedOnce ==
    pc["mon"] = "push" =>
        <<job.printerName, job.jobId>> \notin everInserted

\* the job the polling loop has just offered is stored with another status
StatusChanged ==
    /\ pc["mon"] \in {"unlock", "joblog"}
    /\ exists
    /\ \E k \in 1 .. Len(printJobs) :
          /\ printJobs[k].jobId = job.jobId
          /\ printJobs[k].printerName = job.printerName
          /\ printJobs[k].status # job.status

\* a step leaves every record that stays in the store as it was
C12_Immutable ==
    LET d == IF Len(printJobs') < Len(printJobs)
             THEN Len(printJobs) - Len(printJobs')
             ELSE 0
    IN  \/ printJobs' = printJobs
        \/ \A k \in 1 .. Len(printJobs') :
               k + d <= Len(printJobs) => printJobs'[k] = printJobs[k + d]

C12_Dropped ==
    StatusChanged =>
        /\ \A k \in 1 .. Len(printJobs) : printJobs[k] # job
        /\ NoDuplicates(printJobs)

\* C12 (as amended): no step changes a record that stays in the store, and
\* when the polling loop observes a job that is stored with another status,
\* the stored record keeps its status and no record with the new status is
\* added.
C12_NeverMutated == []C12_Dropped /\ [][C12_Immutable]_vars

\* C12 witness: a stored job was observed again with another status and the
\* attempt is over.
C12_Witness ==
    /\ StatusChanged
    /\ pc["mon"] = "joblog"
    /\ jobsMutex = "free"

\* C12 (as claimed): once the polling loop has offered a job that is stored
\* with another status, the store holds a record with the new status.
C12_StatusCaptured ==
    (StatusChanged /\ pc["mon"] = "joblog") =>
        \E k \in 1 .. Len(printJobs) : printJobs[k] = job

\* the flags in the order of precedence C13 gives, with their names
C13_Order ==
    <<<<JOB_STATUS_PAUSED, "Paused">>, <<JOB_STATUS_ERROR, "Error">>,
      <<JOB_STATUS_DELETING, "Deleting">>, <<JOB_STATUS_SPOOLING, "Spooling">>,
      <<JOB_STATUS_PRINTING, "Printing">>, <<JOB_STATUS_OFFLINE, "Offline">>,
      <<JOB_STATUS_PAPEROUT, "Paper Out">>, <<JOB_STATUS_DELETED, "Deleted">>,
      <<JOB_STATUS_BLOCKED_DEVQ, "Blocked">>,
      <<JOB_STATUS_USER_INTERVENTION, "User Intervention Required">>>>

C13_First(mask) ==
    LET hits == {k \in 1 .. Len(C13_Order) :
                    (mask \div C13_Order[k][1]) % 2 = 1}
    IN  IF hits = {} THEN "Queued"
        ELSE C13_Order[CHOOSE k \in hits : \A h \in hits : k <= h][2]

\* C13: the status of a built job is the name of the first flag, in the
\* order Paused, Error, Deleting, Spooling, Printing, Offline, Paper Out,
\* Deleted, Blocked, User Intervention Required, that is set in the
\* bitmask, and Queued when none is set; Paused with Printing gives Paused.
C13_StatusPrecedence ==
    fullJob # NoFullJob =>
        /\ fullJob.status = <<C13_First(enumInfo.Status)>>
        /\ enumInfo.Status = JOB_STATUS_PAUSED + JOB_STATUS_PRINTING =>
              fullJob.status = <<"Paused">>

\* C13 witness: a job with Paused, Printing and an unnamed flag set was
\* built as Paused.
C13_Witness ==
    /\ fullJob # NoFullJob
    /\ enumInfo.Status = JOB_STATUS_PAUSED + JOB_STATUS_PRINTING + 128
    /\ fullJob.status = <<"Paused">>

\* C14: a job without a device-mode blob is built and stored with Unknown for
\* color mode, duplex setting and paper size.
C14_AbsentUnknown ==
    (printJobs # <<>> /\ enumInfo.pDevMode.null) =>
        /\ printJobs[1].colorMode = <<"Unknown">>
        /\ printJobs[1].duplexSetting = <<"Unknown">>
        /\ printJobs[1].paperSize = <<"Unknown">>

\* the device mode dm with the flags f and every code but those kept in
\* keep replaced
C15_Other(dm, f, keep) ==
    [null |-> FALSE, dmFields |-> f,
     dmColor |-> IF keep = "color" THEN dm.dmColor ELSE -1,
     dmDuplex |-> IF keep = "duplex" THEN dm.dmDuplex ELSE -1,
     dmPaperSize |-> IF keep = "paper" THEN dm.dmPaperSize ELSE -1]

C15_Decoded ==
    LET dm == enumInfo.pDevMode
        hasColor == (dm.dmFields \div DM_COLOR) % 2 = 1
        hasDuplex == (dm.dmFields \div DM_DUPLEX) % 2 = 1
        hasPaper == (dm.dmFields \div DM_PAPERSIZE) % 2 = 1
    IN  /\ ~hasColor => fullJob.colorMode = <<"Unknown">>
        /\ ~hasDuplex => fullJob.duplexSetting = <<"Unknown">>
        /\ ~hasPaper => fullJob.paperSize = <<"Unknown">>
        /\ hasColor => fullJob.colorMode \in {<<"Color">>, <<"Monochrome">>}
        /\ hasColor => (fullJob.colorMode = <<"Color">>
                            <=> dm.dmColor = DMCOLOR_COLOR)
        /\ hasDuplex =>
              fullJob.duplexSetting =
                  IF dm.dmDuplex = DMDUP_SIMPLEX THEN <<"Simplex">>
                  ELSE IF dm.dmDuplex = DMDUP_VERTICAL
                  THEN <<"Duplex Vertical">>
                  ELSE IF dm.dmDuplex = DMDUP_HORIZONTAL
                  THEN <<"Duplex Horizontal">>
                  ELSE <<"Unknown">>
        /\ hasPaper =>
              fullJob.paperSize =
                  IF dm.dmPaperSize = DMPAPER_LETTER THEN <<"Letter">>
                  ELSE IF dm.dmPaperSize = DMPAPER_LEGAL THEN <<"Legal">>
                  ELSE IF dm.dmPaperSize = DMPAPER_A4 THEN <<"A4">>
                  ELSE IF dm.dmPaperSize = DMPAPER_A3 THEN <<"A3">>
                  ELSE IF dm.dmPaperSize = DMPAPER_A5 THEN <<"A5">>
                  ELSE <<"Custom">>
        /\ \A f \in FieldMasks :
              /\ ((f \div DM_COLOR) % 2 = 1) = hasColor =>
                    <<getColorMode(C15_Other(dm, f, "color"))>>
                        = fullJob.colorMode
              /\ ((f \div DM_DUPLEX) % 2 = 1) = hasDuplex =>
                    <<getDuplexSetting(C15_Other(dm, f, "duplex"))>>
                        = fullJob.duplexSetting
              /\ ((f \div DM_PAPERSIZE) % 2 = 1) = hasPaper =>
                    <<getPaperSize(C15_Other(dm, f, "paper"))>>
                        = fullJob.paperSize

\* C15: for a job with a device-mode blob, each of color mode, duplex
\* setting and paper size is Unknown when its own flag is unset, is given by
\* its own code through a fixed table when the flag is set (Custom for a
\* paper-size code outside Letter, Legal, A4, A3, A5), and does not change
\* when the other flags and codes change.
C15_Independent ==
    (fullJob # NoFullJob /\ ~enumInfo.pDevMode.null) => C15_Decoded

\* C15 witness: paper-size flag set with an unlisted code gives Custom while
\* the color flag is unset with the code for color, giving Unknown.
C15_Witness ==
    /\ fullJob # NoFullJob
    /\ ~enumInfo.pDevMode.null
    /\ enumInfo.pDevMode.dmFields = DM_PAPERSIZE + DM_DUPLEX
    /\ enumInfo.pDevMode.dmPaperSize = MaxPaper
    /\ enumInfo.pDevMode.dmColor = DMCOLOR_COLOR
    /\ fullJob.paperSize = <<"Custom">>
    /\ fullJob.colorMode = <<"Unknown">>

RECURSIVE C16_Doubled(_)
\* str with every double quote written twice
C16_Doubled(str) ==
    IF str = <<>> THEN <<>>
    ELSE (IF Head(str) = Q THEN <<Q, Q>> ELSE <<Head(str)>>)
         \o C16_Doubled(Tail(str))

\* a string field as C16 gives it
C16_Field(str) == <<Q>> \o C16_Doubled(str) \o <<Q>>

\* a numeric field: an optional sign and digits, no double quote
C16_Number(n) ==
    IF n < 0 THEN <<"-">> \o DigitsSucc(-(n + 1)) ELSE Digits(n)

C16_Row(jb) ==
    C16_Field(jb.printerName) \o <<",">> \o C16_Field(jb.timestamp)
    \o <<",">> \o C16_Field(jb.status) \o <<",">> \o C16_Number(jb.pages)
    \o <<",">> \o C16_Number(jb.documentSize)
    \o <<",">> \o C16_Field(jb.colorMode)
    \o <<",">> \o C16_Field(jb.duplexSetting)
    \o <<",">> \o C16_Field(jb.paperSize)
    \o <<",">> \o C16_Field(jb.userAccount)
    \o <<",">> \o C16_Field(jb.jobId) \o <<"\n">>

\* C16: the row written for a stored job has its eight string fields in
\* double quotes with every embedded double quote doubled, and its two
\* numeric fields, fourth and fifth, unquoted; the device name
\* He said "hi" is written as "He said ""hi""".
C16_CsvQuoting ==
    csvRow # <<>> =>
        /\ csvRow = C16_Row(printJobs[1])
        /\ \A k \in 1 .. Len(C16_Number(printJobs[1].pages)) :
              C16_Number(printJobs[1].pages)[k] # Q
        /\ printJobs[1].printerName = HeSaidHi =>
              SubSeq(csvRow, 1, 9)
                  = <<Q, "He said ", Q, Q, "hi", Q, Q, Q, ",">>

\* C16 witness: the row of the job of the printer He said "hi" is written.
C16_Witness ==
    /\ csvRow # <<>>
    /\ printJobs[1].printerName = HeSaidHi
    /\ printJobs[1].userAccount = <<Q, Q>>

\* C20: the page count and the document size of a stored job are not
\* negative, and the page count is TotalPages when that is above zero and
\* PagesPrinted otherwise.
C20_NonNegative ==
    printJobs # <<>> =>
        /\ printJobs[1].pages >= 0
        /\ printJobs[1].documentSize >= 0
        /\ printJobs[1].pages =
              ToInt(IF Positive(enumInfo.TotalPages) THEN enumInfo.TotalPages
                    ELSE enumInfo.PagesPrinted)

\* C17: no thread opens a file, writes rows, prints the statistics or
\* writes a log line while it holds jobsMutex: the lock is released before
\* the file of exportToCSV is opened and before showStatistics prints.
C17_NoIoUnderLock ==
    \A t \in Threads :
        jobsMutex = t =>
            pc[t] \notin {"exp_open", "exp_write", "stats_read", "log",
                          "logging"}

\* The polling loop is inside the device loop of lines 247-347.
C18_InDeviceLoop ==
    \/ pc["mon"] \in {"devloop", "open", "enumjobs", "jobloop", "lock",
                      "scan", "push", "evict", "unlock", "joblog", "close"}
    \/ /\ pc["mon"] \in {"log", "logging"}
       /\ ret["mon"] \in {"devloop", "close", "jobloop"}

\* The devices before the current one, and the current one once its open
\* succeeded, were all tried in this cycle, those that failed included.
C18_Attempted ==
    C18_InDeviceLoop =>
        /\ i <= numPrinters
        /\ cycle.attempted = 0 .. (IF hPrinter # 0 THEN i ELSE i - 1)

\* After a failure in this cycle the new job of a later device is in the
\* store when the job loop has dealt with it.
C18_Inserted ==
    cycle.failed /\ pc["mon"] = "joblog" /\ ~exists =>
        \E k \in 1 .. Len(printJobs) : printJobs[k] = job

\* The device loop is left at its test only, when every enumerated device
\* was tried or monitoringActive is clear.
C18_Leaves ==
    C18_InDeviceLoop /\ ~C18_InDeviceLoop' =>
        /\ pc["mon"] = "devloop"
        /\ pc'["mon"] = "wait"
        /\ i >= numPrinters \/ ~monitoringActive
        /\ monitoringActive => cycle.attempted = 0 .. numPrinters - 1

\* C18: within one poll cycle a failed OpenPrinterA or a failed EnumJobs on
\* one device does not end the cycle: while monitoringActive is set every
\* later device of the enumerated list is still tried, and the new jobs of
\* the devices that succeed are inserted.
C18_FailureIsolated ==
    /\ [](C18_Attempted /\ C18_Inserted)
    /\ [][C18_Leaves]_vars

\* C18 witness: a device failed in this cycle and the new job of a later
\* device was inserted all the same.
C18_Witness ==
    /\ cycle.failed
    /\ pc["mon"] = "joblog"
    /\ ~exists
    /\ i >= 1
    /\ \E k \in 1 .. Len(printJobs) : printJobs[k] = job

\* The polling loop is between a successful OpenPrinterA and ClosePrinter.
C19_InDeviceBody ==
    \/ pc["mon"] \in {"enumjobs", "jobloop", "lock", "scan", "push", "evict",
                      "unlock", "joblog", "close"}
    \/ /\ pc["mon"] \in {"log", "logging"}
       /\ ret["mon"] \in {"close", "jobloop"}

\* A handle is open exactly inside the body of its device: none is open at
\* the loop test, at the next OpenPrinterA, outside the cycle or once the
\* loop has ended.
C19_OpenOnlyInBody ==
    /\ hPrinter # 0 <=> C19_InDeviceBody
    /\ hPrinter # 0 => hPrinter = i + 1

\* A handle is opened only while none is open and goes away only through
\* ClosePrinter.
C19_OpenClose ==
    hPrinter' # hPrinter =>
        \/ hPrinter = 0 /\ pc["mon"] = "open"
        \/ hPrinter' = 0 /\ pc["mon"] = "close"

\* C19: every handle OpenPrinterA returned is closed before the loop goes
\* on to the next device or leaves the cycle, whether EnumJobs succeeded,
\* failed or reported no job or a stop request arrived during the job loop;
\* at most one handle is open and none once the loop has ended.
C19_HandleClosed ==
    /\ []C19_OpenOnlyInBody
    /\ [][C19_OpenClose]_vars

\* C19 witness: stopMonitoring cleared the flag while a device that was
\* opened had devices after it, and its handle is closed at the loop test.
C19_Witness ==
    /\ pc["mon"] = "devloop"
    /\ ~monitoringActive
    /\ ~cycle.failed
    /\ cycle.attempted # {}
    /\ i < numPrinters
    /\ hPrinter = 0

\* C21: whenever startMonitoring() has returned and monitoringActive reads
\* true a polling loop is alive; after a start whose std::thread
\* constructor threw, the flag is clear again.
C21_RunningMeansLoop ==
    (monitoringActive /\ pc["cmd"] = "idle") =>
        aliveLoops = 1 /\ pc["mon"] \notin {"none", "done"}

\* With the flag clear and stopMonitoring() not waiting in join, no step
\* changes the store.
C22_Frozen ==
    (~monitoringActive /\ pc["cmd"] # "stop_join") => printJobs' = printJobs

\* The store changes only in a step of the polling loop at push_back or at
\* erase; no step of exportToCSV() or showStatistics() changes it.
C22_OnlyLoopWrites ==
    printJobs' # printJobs =>
        /\ pc["mon"] \in {"push", "evict"}
        /\ pc'["mon"] # pc["mon"]
        /\ pc'["cmd"] = pc["cmd"]
        /\ pc'["ps"] = pc["ps"]

\* C22: from the return of stopMonitoring() to the next start the store is
\* not modified, the insertion the polling loop completes between the
\* clearing of the flag and the end of the join being the last one; export
\* and statistics never modify the store.
C22_StoreFrozen == [][C22_Frozen /\ C22_OnlyLoopWrites]_vars

\* C22 witness: the polling loop pushed a record after the flag was
\* cleared, stop has returned and an export or the statistics read the
\* store.
C22_Witness ==
    /\ ~monitoringActive
    /\ lateInsert
    /\ pc["cmd"] \in {"exp_write", "stats_read"}
    /\ printJobs # <<>>

\* The thread that holds logMutex is inside logMessage(), where jobsMutex
\* is never requested, and stopMonitoring() waits in join holding no mutex.
C23_LockOrder ==
    /\ \A t \in Threads : logMutex = t => pc[t] = "logging"
    /\ pc["cmd"] = "stop_join" => jobsMutex # "cmd" /\ logMutex # "cmd"

\* The holder of a mutex can run, or it holds jobsMutex and waits for
\* logMutex, whose holder can run.
C23_HolderRuns ==
    \A t \in Threads :
        /\ logMutex = t => ENABLED LogWrite(t)
        /\ jobsMutex = t =>
              \/ ENABLED Runs(t)
              \/ pc[t] = "log" /\ logMutex \notin {"free", t}

\* thread t waits for a mutex or for the end of the polling thread
C23_Requesting(t) ==
    pc[t] \in {"lock", "exp_lock", "stats_lock", "log", "stop_join"}

\* C23: jobsMutex and logMutex cannot deadlock: no thread requests
\* jobsMutex while it holds logMutex, the holder of a mutex is never blocked
\* by a thread that waits for it, and under fair scheduling every thread
\* that requests a mutex gets it and every join of stopMonitoring() ends.
C23_NoDeadlock ==
    /\ [](C23_LockOrder /\ C23_HolderRuns)
    /\ \A t \in Threads : C23_Requesting(t) ~> ~C23_Requesting(t)

\* C23 witness: the polling loop waits for jobsMutex, which the periodic
\* export holds while it waits for logMutex, which the command thread holds.
C23_Witness ==
    /\ pc["mon"] = "lock"
    /\ jobsMutex = "ps"
    /\ pc["ps"] = "log"
    /\ logMutex = "cmd"

=============================================================================
